---- MODULE Spec2Model ----
(***************************************************************************)
(* A model of sitemon: the difference engines of diff_engines.py (the      *)
(* line engine Comparison and the forum engines built on ForumDiffEngine), *)
(* WebBrowser.get_page, Storage and the main loop of sitemon.py.           *)
(*                                                                         *)
(* The code is Python 2 (urlparse, urllib2, itervalues, buffer): a dict    *)
(* iterates in hash-slot order, which does not depend on the order of      *)
(* insertion.  The slot order is a property of the interpreter a call runs *)
(* in; every call draws it from all the orders of the keys.                *)
(***************************************************************************)
EXTENDS Integers, Sequences, FiniteSets

VARIABLES
  engine,     \* the diff engine instance: [cls, url, xpath]
  pc,         \* "none" (no instance), "idle", "returned"
  op,         \* the method last called on the instance
  old,        \* the old argument of the last call
  new,        \* the new argument of the last call (the html of a parse call)
  parsed_new, \* parse_and_compare's local: what parse(new) gave, [exc, val]
  ret,        \* what the last call returned or raised: [exc, val]
  \* WebBrowser.get_page
  browser,    \* the WebBrowser instance: [url, previsit_urls, validations, auth]
  bpc,        \* the position of get_page
  page,       \* get_page's local: the page last retrieved
  log,        \* what get_page has done so far: requests, validations, outcome
  \* main
  conf,       \* conf.sites(): a sequence of [url, diff_engine]
  storage,    \* the rows of table pages, in the order they were inserted
  mpc,        \* "idle", "running", "done", "aborted"
  options,    \* [download]
  timestamp,  \* main's timestamp: datetime.now() as the run started
  site,       \* the index in conf of the site main handles next
  report,     \* HTMLReport.report: [changed, unchanged]
  last,       \* what the last iteration of main's loop did
  runs        \* the runs of main started so far

evars == <<engine, pc, op, old, new, parsed_new, ret>>
bvars == <<browser, bpc, page, log>>
mvars == <<conf, storage, mpc, options, timestamp, site, report, last, runs>>
vars == <<evars, bvars, mvars>>

\* ------------------------------------------------------------------ bounds

MaxRows == 2   \* rows of a page
MaxKeys == 3   \* keys of a keyed collection handed to compare directly
MaxPrevisit == 2     \* previsit urls of a WebBrowser
MaxValidations == 2  \* validations of a WebBrowser
MaxSites == 2  \* sites of conf.yml
MaxRuns == 2   \* runs of main
MaxClock == 3  \* readings of the wall clock

\* ------------------------------------------------------------- documents

\* An href as written in a page: a path, written "t1" or "./t1", with or
\* without a "&sid=..." session parameter.  The pages of the model carry no
\* session parameter.
Paths == {"t1"}
Sids == {FALSE}
Hrefs == [path : Paths, dot : BOOLEAN, sid : Sids]
Titles == {"Alpha"}
Stamps == {"3", "4"}

\* The children of the containers an xpath locates.  A "topic" row has the
\* title element, the activity link (marker) and the cell structure; an "ad"
\* row has none of them; a "header" row has the cells but no title anchor; a
\* "nomarker" row has the title element but no marker.
PlainHref == [path |-> "t1", dot |-> FALSE, sid |-> FALSE]
TopicRows ==
  {r \in [kind : {"topic"}, href : Hrefs, title : Titles, stamp : Stamps] :
     r.stamp = "4" => r.href = PlainHref}
JunkRows == {[kind |-> "ad"], [kind |-> "header"], [kind |-> "nomarker"]}
Rows == TopicRows \cup JunkRows

HasTitle(row) == row.kind \in {"topic", "nomarker"}
HasMarker(row) == row.kind = "topic"
HasCells(row) == row.kind \in {"topic", "header", "nomarker"}

SeqsUpTo(S, n) == UNION {[1..k -> S] : k \in 0..n}
Docs == SeqsUpTo(Rows, MaxRows)

BaseUrl == "http://forum/index"

\* --------------------------------------------------------------- results

NoExc == "none"
Return(v) == [exc |-> NoExc, val |-> v]
Raise(e) == [exc |-> e, val |-> <<>>]

changed(data) == [status |-> "changed", data |-> data]
unchanged == [status |-> "unchanged"]

\* ------------------------------------------------------------ Comparison

MakeTable(o, n) == [difflib |-> <<o, n>>]

\* Comparison.process without the test for equal pages.
ComparisonProcessAlways(o, n) == Return(changed(MakeTable(o, n)))

ComparisonProcess(o, n) ==
  IF o = n THEN Return(unchanged) ELSE Return(changed(MakeTable(o, n)))

\* ------------------------------------------------------- ForumDiffEngine

urljoin(url, link) == [base |-> url, path |-> link.path, sid |-> link.sid]

no_topic == [tag |-> "no_topic"]
topic(url, link, title, stamp) ==
  [tag |-> "topic", key |-> link,
   value |-> [link |-> urljoin(url, link), title |-> title,
              timestamp |-> stamp]]
RowRaise(e) == [tag |-> "raise", exc |-> e]

StripSid(href) == [href EXCEPT !.sid = FALSE]

InvisionParseRow(url, row) ==
  IF ~HasTitle(row) THEN no_topic
  ELSE IF ~HasMarker(row) THEN RowRaise("IndexError")
  ELSE topic(url, row.href, row.title, row.stamp)

VBulletinParseRow(url, row) ==
  IF ~HasTitle(row) THEN no_topic
  ELSE IF ~HasMarker(row) THEN no_topic
  ELSE topic(url, row.href, row.title, row.stamp)

PHPBBParseRow(url, row) ==
  IF ~HasTitle(row) THEN no_topic
  ELSE IF ~HasMarker(row) THEN RowRaise("IndexError")
  ELSE topic(url, StripSid(row.href), row.title, row.stamp)

DNZParseRow(url, row) ==
  IF ~HasCells(row) THEN RowRaise("IndexError")
  ELSE IF ~HasTitle(row) THEN no_topic
  ELSE IF ~HasMarker(row) THEN RowRaise("IndexError")
  ELSE topic(url, row.href, row.title, row.stamp)

PcmagParseRow(url, row) ==
  IF ~HasTitle(row) THEN no_topic
  ELSE IF ~HasMarker(row) THEN RowRaise("IndexError")
  ELSE topic(url, row.href, row.title, row.stamp)

ForumClasses ==
  {"DiffInvision", "DiffVBulletin", "DiffVBulletin4", "DiffPHPBB", "DiffDNZ",
   "DiffPcmag"}
Classes == ForumClasses \cup {"Comparison"}

parse_row(cls, url, row) ==
  CASE cls = "DiffInvision" -> InvisionParseRow(url, row)
    [] cls \in {"DiffVBulletin", "DiffVBulletin4"} -> VBulletinParseRow(url, row)
    [] cls = "DiffPHPBB" -> PHPBBParseRow(url, row)
    [] cls = "DiffDNZ" -> DNZParseRow(url, row)
    [] cls = "DiffPcmag" -> PcmagParseRow(url, row)

\* A dict is [keys, val]: val maps each key to its value, and keys is the
\* order in which the dict iterates, which is the interpreter's slot order.
EmptyDict == [keys |-> <<>>, val |-> <<>>]
Range(s) == {s[i] : i \in DOMAIN s}
Has(d, k) == k \in Range(d.keys)
DictSet(order, d, k, v) ==
  [keys |-> SelectSeq(order, LAMBDA x : x = k \/ Has(d, x)),
   val |-> [x \in Range(d.keys) \cup {k} |-> IF x = k THEN v ELSE d.val[x]]]

NoAttr == "no attribute"

\* parse without the assertion: a later row overwrites an earlier one.
RECURSIVE ParseRowsOverwrite(_, _, _, _, _, _)
ParseRowsOverwrite(order, cls, url, rows, i, results) ==
  IF i > Len(rows) THEN Return(results)
  ELSE LET r == parse_row(cls, url, rows[i]) IN
    IF r.tag = "raise" THEN Raise(r.exc)
    ELSE IF r.tag = "no_topic"
    THEN ParseRowsOverwrite(order, cls, url, rows, i + 1, results)
    ELSE ParseRowsOverwrite(order, cls, url, rows, i + 1,
                            DictSet(order, results, r.key, r.value))

RECURSIVE ParseRows(_, _, _, _, _, _)
ParseRows(order, cls, url, rows, i, results) ==
  IF i > Len(rows) THEN Return(results)
  ELSE LET r == parse_row(cls, url, rows[i]) IN
    IF r.tag = "raise" THEN Raise(r.exc)
    ELSE IF r.tag = "no_topic"
    THEN ParseRows(order, cls, url, rows, i + 1, results)
    ELSE IF Has(results, r.key) THEN Raise("AssertionError")
    ELSE ParseRows(order, cls, url, rows, i + 1,
                   DictSet(order, results, r.key, r.value))

parse(order, e, html) ==
  IF e.xpath = NoAttr THEN Raise("AttributeError")
  ELSE ParseRows(order, e.cls, e.url, html, 1, EmptyDict)

\* the loop of compare appending the old record of a changed key.
RECURSIVE CompareLoopOld(_, _, _, _)
CompareLoopOld(o, n, i, results) ==
  IF i > Len(n.keys) THEN results
  ELSE LET key == n.keys[i] IN
    IF Has(o, key)
    THEN IF n.val[key] # o.val[key]
         THEN CompareLoopOld(o, n, i + 1, Append(results, o.val[key]))
         ELSE CompareLoopOld(o, n, i + 1, results)
    ELSE CompareLoopOld(o, n, i + 1, Append(results, n.val[key]))

\* for key in new: ...
RECURSIVE CompareLoop(_, _, _, _)
CompareLoop(o, n, i, results) ==
  IF i > Len(n.keys) THEN results
  ELSE LET key == n.keys[i] IN
    IF Has(o, key)
    THEN IF n.val[key] # o.val[key]
         THEN CompareLoop(o, n, i + 1, Append(results, n.val[key]))
         ELSE CompareLoop(o, n, i + 1, results)
    ELSE CompareLoop(o, n, i + 1, Append(results, n.val[key]))

\* compare reporting the deleted topics too (what is left in set_old).
compareDeleted(o, n) ==
  LET gone == SelectSeq(o.keys, LAMBDA k : ~Has(n, k))
      results == CompareLoop(o, n, 1, <<>>)
                 \o [i \in 1..Len(gone) |-> o.val[gone[i]]]
  IN <<Len(results) > 0, results>>

compare(o, n) ==
  LET results == CompareLoop(o, n, 1, <<>>)
  IN <<Len(results) > 0, results>>

Render(diff_results) ==
  [template |-> "template.forumdiff.html", diff_results |-> diff_results]

\* parse_and_compare handing the pages to compare the wrong way round.
parse_and_compare_swapped(order, e, o, n) ==
  LET pn == parse(order, e, n)
      po == parse(order, e, o)
  IN IF pn.exc # NoExc THEN Raise(pn.exc)
     ELSE IF po.exc # NoExc THEN Raise(po.exc)
     ELSE LET c == compare(pn.val, po.val) IN
       IF ~c[1] THEN Return(unchanged) ELSE Return(changed(Render(c[2])))

parse_and_compare(order, e, o, n) ==
  LET pn == parse(order, e, n)
      po == parse(order, e, o)
  IN IF pn.exc # NoExc THEN Raise(pn.exc)
     ELSE IF po.exc # NoExc THEN Raise(po.exc)
     ELSE LET c == compare(po.val, pn.val) IN
       IF ~c[1] THEN Return(unchanged) ELSE Return(changed(Render(c[2])))

ClassXPath(cls) ==
  CASE cls = "DiffInvision" -> "//*[@id=forum_table]"
    [] cls = "DiffVBulletin" -> "//*[@id=threadslist]/tbody[last()]"
    [] cls = "DiffVBulletin4" -> "//*[@id=threads or @id=stickies]"
    [] cls = "DiffDNZ" -> "/html/body/form/div[2]/.../div[5]/table/tbody"
    [] cls = "DiffPcmag" -> "/html/body/div/div/div[4]/.../div/table/tbody"

ConfXPaths == {"//table[@class=forumline]"}

\* __init__: only DiffPHPBB takes and stores an xpath.
NewEngine(cls, url, xpath) ==
  [cls |-> cls, url |-> url,
   xpath |-> IF cls = "DiffPHPBB" THEN xpath ELSE NoAttr]

\* process: the instance as the call leaves it.
ProcessSelf(e) ==
  IF e.cls \in ForumClasses \ {"DiffPHPBB"}
  THEN [e EXCEPT !.xpath = ClassXPath(e.cls)]
  ELSE e

process(order, e, o, n) ==
  IF e.cls = "Comparison" THEN ComparisonProcess(o, n)
  ELSE parse_and_compare(order, ProcessSelf(e), o, n)

\* ----------------------------------------------------------- the engine

SlotOrders(S) ==
  {f \in [1..Cardinality(S) -> S] : \A a \in S : \E i \in DOMAIN f : f[i] = a}

NoEngine == [cls |-> "none", url |-> "", xpath |-> NoAttr]
Nothing == Return(<<>>)

\* No WebBrowser and no run of main: the state of their variables in the
\* specifications of the engines.
NoBrowser ==
  /\ browser = [url |-> "", previsit_urls |-> <<>>, validations |-> <<>>,
                auth |-> [enabled |-> FALSE]]
  /\ bpc = "none"
  /\ page = {}
  /\ log = <<>>
NoMain ==
  /\ conf = <<>>
  /\ storage = <<>>
  /\ mpc = "none"
  /\ options = [download |-> FALSE]
  /\ timestamp = 0
  /\ site = 0
  /\ report = [changed |-> <<>>, unchanged |-> <<>>]
  /\ last = [url |-> "", diffed |-> FALSE]
  /\ runs = 0
NoCall ==
  /\ op = "none"
  /\ old = <<>>
  /\ new = <<>>
  /\ parsed_new = Nothing
  /\ ret = Nothing

Init ==
  /\ engine = NoEngine
  /\ pc = "none"
  /\ NoCall
  /\ NoBrowser
  /\ NoMain

Construct ==
  /\ pc = "none"
  /\ \E cls \in Classes, xpath \in ConfXPaths :
       engine' = NewEngine(cls, BaseUrl, xpath)
  /\ pc' = "idle"
  /\ UNCHANGED <<op, old, new, parsed_new, ret, bvars, mvars>>

CallProcess ==
  /\ pc = "idle"
  /\ \E o \in Docs, n \in Docs, order \in SlotOrders(Hrefs) :
       /\ old' = o
       /\ new' = n
       /\ ret' = process(order, engine, o, n)
       /\ parsed_new' = IF engine.cls = "Comparison" THEN Nothing
                        ELSE parse(order, ProcessSelf(engine), n)
  /\ engine' = ProcessSelf(engine)
  /\ op' = "process"
  /\ pc' = "returned"
  /\ UNCHANGED <<bvars, mvars>>

CallParse ==
  /\ pc = "idle"
  /\ engine.cls \in ForumClasses
  /\ \E html \in Docs, order \in SlotOrders(Hrefs) :
       /\ new' = html
       /\ ret' = parse(order, engine, html)
  /\ old' = <<>>
  /\ op' = "parse"
  /\ pc' = "returned"
  /\ UNCHANGED <<engine, parsed_new, bvars, mvars>>

Discard ==
  /\ pc = "returned"
  /\ pc' = "idle"
  /\ op' = "none"
  /\ old' = <<>>
  /\ new' = <<>>
  /\ parsed_new' = Nothing
  /\ ret' = Nothing
  /\ UNCHANGED <<engine, bvars, mvars>>

Next == Construct \/ CallProcess \/ CallParse \/ Discard

Spec == Init /\ [][Next]_vars

\* ------------------------------------------------- compare, on its own

\* Keyed collections handed to compare directly: any keys, in any iteration
\* order, each with a record.
DictKeys == {"L1", "L2", "L3", "L4"}
DictTitles == {"Alpha"}
DictRecords(k) == [link : {k}, title : DictTitles, timestamp : Stamps]
KeySeqs ==
  {ks \in SeqsUpTo(DictKeys, MaxKeys) :
     \A i, j \in DOMAIN ks : i # j => ks[i] # ks[j]}
DictsOn(ks) ==
  {[keys |-> ks, val |-> v] :
     v \in {f \in [Range(ks) -> UNION {DictRecords(k) : k \in Range(ks)}] :
              \A k \in Range(ks) : f[k].link = k}}
Dicts == UNION {DictsOn(ks) : ks \in KeySeqs}

InitCompare ==
  /\ engine = NewEngine("DiffPHPBB", BaseUrl, CHOOSE x \in ConfXPaths : TRUE)
  /\ pc = "idle"
  /\ NoCall
  /\ NoBrowser
  /\ NoMain

CallCompare ==
  /\ pc = "idle"
  /\ \E o \in Dicts, n \in Dicts :
       /\ old' = o
       /\ new' = n
       /\ ret' = Return(compare(o, n))
  /\ op' = "compare"
  /\ pc' = "returned"
  /\ UNCHANGED <<engine, parsed_new, bvars, mvars>>

NextCompare == CallCompare \/ Discard

SpecCompare == InitCompare /\ [][NextCompare]_vars

\* ---------------------------------------------------------- WebBrowser

\* A page, for validate: the set of the xpaths that find a node in it.
XPaths == {"//a[@id=logout]", "//form[@id=login]"}
BrowserPages == SUBSET XPaths
Validations == [xpath : XPaths, should_exist : BOOLEAN]
PrevisitUrls == {"http://site/a", "http://site/b"}
SiteUrl == "http://site/forum"

Browsers ==
  [url : {SiteUrl},
   previsit_urls : SeqsUpTo(PrevisitUrls, MaxPrevisit),
   validations : SeqsUpTo(Validations, MaxValidations),
   auth : [enabled : BOOLEAN]]

Event(ev, url, p, ok) == [ev |-> ev, url |-> url, page |-> p, ok |-> ok]
Get(url) == Event("GET", url, {}, TRUE)
Save == Event("save cookies", "", {}, TRUE)
Validated(p, ok) == Event("validate", "", p, ok)
Authenticated == Event("authenticate", "", {}, TRUE)
Returned(p) == Event("return", "", p, TRUE)
Raised(exc) == Event("raise", exc, {}, FALSE)

\* assert_by_xpath raises when the xpath finds no node.
assert_by_xpath(p, xpath) == xpath \in p

RECURSIVE ValidateFrom(_, _, _)
ValidateFrom(validations, p, i) ==
  IF i > Len(validations) THEN TRUE
  ELSE IF ~assert_by_xpath(p, validations[i].xpath)
       THEN IF validations[i].should_exist THEN FALSE
            ELSE ValidateFrom(validations, p, i + 1)
       ELSE IF ~validations[i].should_exist THEN FALSE
            ELSE ValidateFrom(validations, p, i + 1)

validate(b, p) ==
  IF Len(b.validations) = 0 THEN TRUE ELSE ValidateFrom(b.validations, p, 1)

\* The requests of http_get: the previsit urls in order, then the url.
http_get(b) ==
  [i \in 1..Len(b.previsit_urls) |-> Get(b.previsit_urls[i])] \o <<Get(b.url)>>

\* get_page returning the second page whether it is valid or not.
AfterValidateLenient(attempt, ok) ==
  IF ok \/ attempt = 2 THEN "returned" ELSE "authenticate"

\* get_page after validate(page): the first time and the second.
AfterValidate(attempt, ok) ==
  IF ok THEN "returned"
  ELSE IF attempt = 1 THEN "authenticate" ELSE "InvalidPage"

NoEngineCall ==
  /\ engine = NoEngine
  /\ pc = "none"
  /\ NoCall

InitBrowser ==
  /\ browser \in Browsers
  /\ bpc = "constructed"
  /\ page = {}
  /\ log = <<>>
  /\ NoEngineCall
  /\ NoMain

GetPage ==
  /\ bpc = "constructed"
  /\ bpc' = "http_get_1"
  /\ UNCHANGED <<browser, page, log, evars, mvars>>

Attempt == IF bpc \in {"http_get_1", "validate_1"} THEN 1 ELSE 2

HttpGet ==
  /\ bpc \in {"http_get_1", "http_get_2"}
  /\ \E p \in BrowserPages : page' = p
  /\ log' = log \o http_get(browser) \o <<Save>>
  /\ bpc' = IF Attempt = 1 THEN "validate_1" ELSE "validate_2"
  /\ UNCHANGED <<browser, evars, mvars>>

HttpGetRaises ==
  /\ bpc \in {"http_get_1", "http_get_2"}
  /\ \E j \in 1..Len(http_get(browser)) :
       log' = log \o SubSeq(http_get(browser), 1, j) \o <<Raised("URLError")>>
  /\ bpc' = "URLError"
  /\ UNCHANGED <<browser, page, evars, mvars>>

Validate ==
  /\ bpc \in {"validate_1", "validate_2"}
  /\ LET ok == validate(browser, page)
         next == AfterValidate(Attempt, ok)
     IN /\ bpc' = next
        /\ log' = log \o <<Validated(page, ok)>> \o
                  (CASE next = "returned" -> <<Returned(page)>>
                     [] next = "InvalidPage" -> <<Raised("InvalidPage")>>
                     [] OTHER -> <<>>)
  /\ UNCHANGED <<browser, page, evars, mvars>>

Authenticate ==
  /\ bpc = "authenticate"
  /\ log' = log \o <<Authenticated>>
  /\ bpc' = "http_get_2"
  /\ UNCHANGED <<browser, page, evars, mvars>>

AuthenticateRaises ==
  /\ bpc = "authenticate"
  /\ browser.auth.enabled
  /\ log' = log \o <<Authenticated, Raised("URLError")>>
  /\ bpc' = "URLError"
  /\ UNCHANGED <<browser, page, evars, mvars>>

NextBrowser ==
  \/ GetPage
  \/ HttpGet
  \/ HttpGetRaises
  \/ Validate
  \/ Authenticate
  \/ AuthenticateRaises

SpecBrowser == InitBrowser /\ [][NextBrowser]_vars

\* ---------------------------------------------------------------- main

SiteUrls == {"http://one/", "http://two/"}
SiteEngines == {"Comparison", "DiffVBulletin"}
Sites == [url : SiteUrls, diff_engine : SiteEngines]

\* conf.yml: some sites, each url once.
Confs ==
  {c \in SeqsUpTo(Sites, MaxSites) :
     /\ Len(c) > 0
     /\ \A i, j \in DOMAIN c : i # j => c[i].url # c[j].url}

\* The pages a site serves: one topic, the topic with a newer marker, and a
\* page that lists the topic twice.
Topic3 == [kind |-> "topic", href |-> PlainHref, title |-> "Alpha", stamp |-> "3"]
Topic4 == [kind |-> "topic", href |-> PlainHref, title |-> "Alpha", stamp |-> "4"]
ServedPages == {<<Topic3>>, <<Topic4>>, <<Topic3, Topic3>>}

\* Storage.store_page: insert into pages (url, timestamp, content).
store_page(rows, url, ts, content) ==
  Append(rows, [url |-> url, timestamp |-> ts, content |-> content])

\* Storage.get_2_most_recent_pages: select content from pages where url=?
\* order by timestamp desc limit 2.  Rows of equal timestamp come in any
\* order, so this is the set of the results the query can give.
get_2_most_recent_pages(rows, url) ==
  LET mine == SelectSeq(rows, LAMBDA r : r.url = url)
      n == Len(mine)
      sorted == {f \in [1..n -> 1..n] :
                   /\ \A a, b \in 1..n : a # b => f[a] # f[b]
                   /\ \A a, b \in 1..n :
                        a < b => mine[f[a]].timestamp >= mine[f[b]].timestamp}
  IN {[k \in 1..(IF n < 2 THEN n ELSE 2) |-> mine[f[k]].content] : f \in sorted}

\* HTMLReport.add_page
add_page(rep, url, diff_results) ==
  [rep EXCEPT ![diff_results.status] =
     Append(@, [url |-> url, diff_results |-> diff_results])]

EmptyReport == [changed |-> <<>>, unchanged |-> <<>>]
NoLast == [url |-> "", diffed |-> FALSE]

InitMain ==
  /\ conf \in Confs
  /\ storage = <<>>
  /\ mpc = "idle"
  /\ options = [download |-> FALSE]
  /\ timestamp = 0
  /\ site = 0
  /\ report = EmptyReport
  /\ last = NoLast
  /\ runs = 0
  /\ NoEngineCall
  /\ NoBrowser

\* main up to the loop: the options, a fresh report, the timestamp.  The
\* wall clock is local time: it reads differently at different instants,
\* and not always later.
StartMain ==
  /\ mpc \in {"idle", "done", "aborted"}
  /\ runs < MaxRuns
  /\ runs' = runs + 1
  /\ \E d \in BOOLEAN : options' = [download |-> d]
  /\ \E t \in 1..MaxClock :
       /\ \A i \in DOMAIN storage : storage[i].timestamp # t
       /\ timestamp' = t
  /\ report' = EmptyReport
  /\ site' = 1
  /\ last' = NoLast
  /\ mpc' = "running"
  /\ UNCHANGED <<conf, storage, evars, bvars>>

\* One iteration of the loop, from the download to the report entry.
\* Compare(stored) is the part after store_page.
CompareSite(stored) ==
  LET url == conf[site].url IN
  \E pages \in get_2_most_recent_pages(stored, url) :
    IF Len(pages) = 2
    THEN \E order \in SlotOrders(Hrefs), xpath \in ConfXPaths :
           LET diff_engine == NewEngine(conf[site].diff_engine, url, xpath)
               diff_results == process(order, diff_engine, pages[2], pages[1])
           IN /\ last' = [url |-> url, diffed |-> TRUE,
                          old |-> pages[2], new |-> pages[1]]
              /\ IF diff_results.exc # NoExc
                 THEN mpc' = "aborted" /\ UNCHANGED <<report, site>>
                 ELSE /\ report' = add_page(report, url, diff_results.val)
                      /\ site' = site + 1
                      /\ mpc' = "running"
    ELSE /\ last' = [url |-> url, diffed |-> FALSE]
         /\ site' = site + 1
         /\ UNCHANGED <<report, mpc>>

SiteDownloaded ==
  /\ mpc = "running"
  /\ site <= Len(conf)
  /\ options.download
  /\ \E p \in ServedPages :
       LET stored == store_page(storage, conf[site].url, timestamp, p)
       IN storage' = stored /\ CompareSite(stored)
  /\ UNCHANGED <<conf, options, timestamp, runs, evars, bvars>>

SiteNotDownloaded ==
  /\ mpc = "running"
  /\ site <= Len(conf)
  /\ ~options.download
  /\ CompareSite(storage)
  /\ UNCHANGED <<conf, storage, options, timestamp, runs, evars, bvars>>

\* get_page raises (InvalidPage, or a failing request): main ends there.
SiteDownloadRaises ==
  /\ mpc = "running"
  /\ site <= Len(conf)
  /\ options.download
  /\ mpc' = "aborted"
  /\ last' = NoLast
  /\ UNCHANGED <<conf, storage, options, timestamp, site, report, runs,
                 evars, bvars>>

\* report_engine.generate_report()
GenerateReport ==
  /\ mpc = "running"
  /\ site > Len(conf)
  /\ mpc' = "done"
  /\ UNCHANGED <<conf, storage, options, timestamp, site, report, last, runs,
                 evars, bvars>>

NextMain ==
  \/ StartMain
  \/ SiteDownloaded
  \/ SiteNotDownloaded
  \/ SiteDownloadRaises
  \/ GenerateReport

SpecMain == InitMain /\ [][NextMain]_vars

\* ------------------------------------------------------------- claims

Compared == pc = "returned" /\ op = "compare"
Processed == pc = "returned" /\ op = "process"
Parsed == pc = "returned" /\ op = "parse"
Forum == engine.cls \in ForumClasses

\* The keys of n that compare is to report: inserted or changed.
Reported(o, n) ==
  SelectSeq(n.keys, LAMBDA k : ~Has(o, k) \/ n.val[k] # o.val[k])

\* C1: compare(old, new) returns (anyChanges, results) where results holds,
\* in new's iteration order, exactly the record new[k] of every key k of new
\* that is not in old or whose record differs from old's, and nothing else,
\* and anyChanges is true iff results is not empty.
C1_CompareExact ==
  Compared =>
    LET rep == Reported(old, new) IN
      /\ ret.val[2] = [i \in 1..Len(rep) |-> new.val[rep[i]]]
      /\ ret.val[1] = (ret.val[2] # <<>>)

\* a comparison that skipped an equal record, reported a changed one and
\* reported an inserted one, in new's order
C1_Witness ==
  /\ Compared
  /\ Len(new.keys) = 3
  /\ Len(ret.val[2]) = 2
  /\ \E k \in Range(new.keys) : Has(old, k) /\ new.val[k] = old.val[k]
  /\ \E k \in Range(new.keys) : Has(old, k) /\ new.val[k] # old.val[k]
  /\ \E k \in Range(new.keys) : ~Has(old, k)

\* C2: a key of old that new lacks never appears in the result of compare,
\* whatever else old holds; when every record of new is in old and equal
\* (new empty and old not, too) compare reports no change.
C2_DeletionSuppressed ==
  Compared =>
    /\ \A k \in Range(old.keys) \ Range(new.keys) :
         \A i \in DOMAIN ret.val[2] : ret.val[2][i].link # k
    /\ (\A k \in Range(new.keys) : Has(old, k) /\ new.val[k] = old.val[k])
         => ret.val = <<FALSE, <<>> >>

\* old holds a key that new lacks, beside a changed one, and only the changed
\* one is reported
C2_Witness ==
  /\ Compared
  /\ Range(old.keys) \ Range(new.keys) # {}
  /\ Len(ret.val[2]) = 1
  /\ Has(old, ret.val[2][1].link)

\* Two rows of a page that the rule parses to records with the same key.
HasDuplicate(cls, url, rows) ==
  \E i, j \in DOMAIN rows :
    /\ i < j
    /\ parse_row(cls, url, rows[i]).tag = "topic"
    /\ parse_row(cls, url, rows[j]).tag = "topic"
    /\ parse_row(cls, url, rows[i]).key = parse_row(cls, url, rows[j]).key
RowRaises(cls, url, rows) ==
  \E i \in DOMAIN rows : parse_row(cls, url, rows[i]).tag = "raise"
Extractable(cls, url, rows) ==
  ~HasDuplicate(cls, url, rows) /\ ~RowRaises(cls, url, rows)

\* C3: when two children of a page parse to records with the same key, parse
\* fails (with the assertion, when no row raises) and returns no collection,
\* and a process call whose old or new page has such a duplicate returns no
\* Diff Result: it raises.
C3_DuplicateFatal ==
  /\ Parsed /\ HasDuplicate(engine.cls, engine.url, new) =>
       /\ ret.exc # NoExc
       /\ ret.val = <<>>
       /\ (engine.xpath # NoAttr /\ ~RowRaises(engine.cls, engine.url, new))
            => ret.exc = "AssertionError"
  /\ (/\ Processed
      /\ Forum
      /\ \/ HasDuplicate(engine.cls, engine.url, old)
         \/ HasDuplicate(engine.cls, engine.url, new)) =>
       /\ ret.exc # NoExc
       /\ ret.val = <<>>

\* a process call aborted by a duplicate in the old page alone
C3_Witness ==
  /\ Processed
  /\ Forum
  /\ HasDuplicate(engine.cls, engine.url, old)
  /\ Extractable(engine.cls, engine.url, new)
  /\ Len(new) > 0
  /\ ret.exc = "AssertionError"

\* C4 as stated: process(X, X) returns unchanged for any page X, under the
\* line engine and under every forum rule.
C4_IdempotentAnyPage ==
  (Processed /\ old = new) => ret = Return(unchanged)

\* C4 amended: process(X, X) returns unchanged under the line engine for any
\* X, and under a forum rule for every X whose extraction does not fail; when
\* extraction fails (two rows with one key, or a row on which parse_row
\* raises) process(X, X) raises and returns no Diff Result.
C4_IdempotentWhenExtractable ==
  (Processed /\ old = new) =>
    IF Forum /\ ~Extractable(engine.cls, engine.url, new)
    THEN ret.exc # NoExc /\ ret.val = <<>>
    ELSE ret = Return(unchanged)

\* a forum rule comparing a page of two topics with itself
C4_Witness ==
  /\ Processed
  /\ Forum
  /\ old = new
  /\ Len(new) = 2
  /\ parsed_new.exc = NoExc
  /\ Len(parsed_new.val.keys) = 2
  /\ ret = Return(unchanged)

\* The keys of the topics of a page, in document order of first occurrence.
RECURSIVE DocumentKeys(_, _, _)
DocumentKeys(cls, url, rows) ==
  IF rows = <<>> THEN <<>>
  ELSE LET r == parse_row(cls, url, rows[1])
           rest == DocumentKeys(cls, url, Tail(rows))
       IN IF r.tag # "topic" THEN rest
          ELSE <<r.key>> \o SelectSeq(rest, LAMBDA k : k # r.key)

\* C5: the collection parse produces iterates its records in document order
\* of first occurrence, and the list of changed and inserted records the
\* forum engine hands on is ordered as those records occur in the new page.
C5_DocumentOrder ==
  /\ (Parsed /\ ret.exc = NoExc) =>
       ret.val.keys = DocumentKeys(engine.cls, engine.url, new)
  /\ (Processed /\ Forum /\ ret.exc = NoExc /\ ret.val.status = "changed") =>
       LET keys == DocumentKeys(engine.cls, engine.url, new)
           list == ret.val.data.diff_results
       IN \E f \in [DOMAIN list -> DOMAIN keys] :
            /\ \A i, j \in DOMAIN list : i < j => f[i] < f[j]
            /\ \A i \in DOMAIN list : list[i] = parsed_new.val.val[keys[f[i]]]

\* C6: when both pages extract without failure, process returns unchanged
\* iff every record of the new extraction has its key in the old extraction
\* with an equal record, and otherwise changed with the payload rendered from
\* exactly the list compare gives for the pair.
C6_Composition ==
  (/\ Processed
   /\ Forum
   /\ Extractable(engine.cls, engine.url, old)
   /\ Extractable(engine.cls, engine.url, new)) =>
    \E order \in SlotOrders(Hrefs) :
      LET po == parse(order, engine, old).val
          pn == parse(order, engine, new).val
          same == \A k \in Range(pn.keys) : Has(po, k) /\ pn.val[k] = po.val[k]
      IN /\ pn = parsed_new.val
         /\ ret.exc = NoExc
         /\ (ret.val = unchanged) <=> same
         /\ ~same => ret.val = changed(Render(compare(po, pn)[2]))

\* a changed result that reports one of the two topics of the new page
C6_Witness ==
  /\ Processed
  /\ Forum
  /\ Extractable(engine.cls, engine.url, old)
  /\ parsed_new.exc = NoExc
  /\ Len(parsed_new.val.keys) = 2
  /\ ret.exc = NoExc
  /\ ret.val.status = "changed"
  /\ Len(ret.val.data.diff_results) = 1

\* The row validity test of each rule.
RowValid(cls, row) ==
  CASE cls \in {"DiffInvision", "DiffPHPBB", "DiffPcmag"} -> HasTitle(row)
    [] cls \in {"DiffVBulletin", "DiffVBulletin4"} ->
         HasTitle(row) /\ HasMarker(row)
    [] cls = "DiffDNZ" -> HasCells(row) /\ HasTitle(row)

\* C9: under every rule a child that does not match the rule's row validity
\* test is skipped without error: extraction never aborts because of it, and
\* the collection is exactly the records of the remaining children.
C9_RowParseSkip ==
  (Parsed /\ engine.xpath # NoAttr) =>
    \E order \in SlotOrders(Hrefs) :
      ret = parse(order, engine,
                  SelectSeq(new, LAMBDA row : RowValid(engine.cls, row)))

\* C10: no call of process (or of parse within it) changes the instance: its
\* xpath and its url stay as they were when construction finished.
C10_NeverMutated == [][pc = "idle" => engine' = engine]_vars

\* A page passes the validations: each xpath finds a node iff it should.
PageValid(b, p) ==
  \A i \in DOMAIN b.validations :
    (b.validations[i].xpath \in p) = b.validations[i].should_exist

\* The documented scenario of get_page when the server gives p1 and then p2.
Scenario(b, p1, p2) ==
  http_get(b) \o <<Save, Validated(p1, PageValid(b, p1))>> \o
  (IF PageValid(b, p1) THEN <<Returned(p1)>>
   ELSE <<Authenticated>> \o http_get(b) \o
        <<Save, Validated(p2, PageValid(b, p2))>> \o
        (IF PageValid(b, p2) THEN <<Returned(p2)>>
         ELSE <<Raised("InvalidPage")>>))

IsPrefix(s, t) == Len(s) <= Len(t) /\ s = SubSeq(t, 1, Len(s))

\* C7: every execution of get_page follows the documented scenario: it
\* returns a page only if that page passed validate; it authenticates at most
\* once, and only after the first page failed validation; after that it
\* retrieves again (the previsit urls in order, then the url) and validates
\* the second page; if that one fails too it raises InvalidPage and returns
\* no page.  An execution that a failing request cuts short has followed the
\* scenario up to that request.
C7_Scenario ==
  bpc # "none" =>
    \E p1, p2 \in BrowserPages :
      LET sc == Scenario(browser, p1, p2) IN
        CASE bpc \in {"returned", "InvalidPage"} ->
               /\ log = sc
               /\ bpc = "returned" =>
                    log[Len(log)] = Returned(page) /\ PageValid(browser, page)
               /\ bpc = "InvalidPage" => ~PageValid(browser, page)
          [] bpc = "URLError" ->
               /\ log[Len(log)] = Raised("URLError")
               /\ IsPrefix(SubSeq(log, 1, Len(log) - 1), sc)
          [] OTHER -> IsPrefix(log, sc) /\ Len(log) < Len(sc)

\* get_page raised InvalidPage after authenticating and retrieving again
\* through a previsit url
C7_Witness ==
  /\ bpc = "InvalidPage"
  /\ Len(browser.previsit_urls) > 0
  /\ Len(browser.validations) = 2
  /\ \E i \in DOMAIN log : log[i] = Authenticated
  /\ log[Len(log)] = Raised("InvalidPage")

\* The snapshots of a url in the order they were stored.
Snapshots(url) == SelectSeq(storage, LAMBDA r : r.url = url)
InReport(url) ==
  \E st \in {"changed", "unchanged"} :
    \E i \in DOMAIN report[st] : report[st][i].url = url

\* C8: for the site main has just handled, process is invoked iff storage
\* holds at least two snapshots of its url, and then with old the second most
\* recently stored snapshot and new the most recently stored one (with the
\* download enabled, the page stored in this run); with fewer than two
\* snapshots there is no diff and no entry in the report.
C8_TwoMostRecentlyStored ==
  (mpc \in {"running", "done", "aborted"} /\ last # NoLast) =>
    LET snaps == Snapshots(last.url)
        n == Len(snaps)
    IN /\ last.diffed <=> n >= 2
       /\ last.diffed =>
            /\ last.new = snaps[n].content
            /\ last.old = snaps[n - 1].content
       /\ ~last.diffed => ~InReport(last.url)

\* The records of a keyed collection with their keys.
Entries(d) == {[key |-> k, link |-> d.val[k].link] : k \in Range(d.keys)}
\* Two children of a page that the rule parses to records with the same
\* stored absolute link.
HasSameLink(cls, url, rows) ==
  \E i, j \in DOMAIN rows :
    /\ i < j
    /\ parse_row(cls, url, rows[i]).tag = "topic"
    /\ parse_row(cls, url, rows[j]).tag = "topic"
    /\ parse_row(cls, url, rows[i]).value.link
         = parse_row(cls, url, rows[j]).value.link

\* C11: the key of a record is derived from its link resolved against the
\* engine's url: in the collection parse returns, and across the old and the
\* new collection of a process call, two records have the same key iff they
\* have the same stored absolute link; and a page with two rows whose links
\* resolve to the same absolute URI fails the uniqueness check of parse.
C11_KeyFromAbsoluteLink ==
  /\ (Parsed /\ ret.exc = NoExc) =>
       \A a, b \in Entries(ret.val) : (a.key = b.key) <=> (a.link = b.link)
  /\ (Parsed /\ engine.xpath # NoAttr
             /\ HasSameLink(engine.cls, engine.url, new)) => ret.exc # NoExc
  /\ (Processed /\ Forum /\ ret.exc = NoExc) =>
       LET po == parse(CHOOSE order \in SlotOrders(Hrefs) : TRUE, engine, old)
       IN \A a \in Entries(po.val), b \in Entries(parsed_new.val) :
            (a.key = b.key) <=> (a.link = b.link)

====
